---- MODULE Spec2Model ----
(***************************************************************************)
(* A model of the csscolor library: the Color value type of src/index.js   *)
(* (constructor, derived HSV/HSL fields, derivation methods, string        *)
(* conversion, static factories) and the ColorAlpha extension of           *)
(* src/ColorAlpha.class.js.                                                *)
(*                                                                         *)
(* The library is a set of pure functions over immutable values.  The      *)
(* state machine below is a client session: it holds two Color objects     *)
(* (self, other) built by the constructor, and the record of the last      *)
(* call made (op, in, out).                                                *)
(*                                                                         *)
(* JavaScript numbers.  The HSV/HSL arithmetic is modelled over exact      *)
(* rationals extended with NaN and undefined; a JavaScript value is a      *)
(* record [t, n, d].  The weighted average of mix(), whose result depends  *)
(* on how IEEE-754 doubles round, is modelled over doubles exactly (see    *)
(* the section on doubles).                                                *)
(***************************************************************************)
EXTENDS Integers, Sequences, FiniteSets, TLC

\* Channel arguments range over 0..MaxLow and (255 - MaxLow)..255.
MaxLow == 1

-----------------------------------------------------------------------------
(* JavaScript values: rationals n/d in lowest terms, NaN, undefined.       *)

Abs(x) == IF x < 0 THEN -x ELSE x

RECURSIVE GCD(_, _)
GCD(a, b) == IF b = 0 THEN a ELSE GCD(b, a % b)

Num(n, d) ==
  LET g == GCD(Abs(n), d)
  IN  [t |-> "num", n |-> n \div g, d |-> d \div g]

Whole(k) == [t |-> "num", n |-> k, d |-> 1]
NaN == [t |-> "NaN", n |-> 0, d |-> 1]
Undefined == [t |-> "undefined", n |-> 0, d |-> 1]
Infinity(s) == [t |-> "Infinity", n |-> s, d |-> 1]

IsNum(x) == x.t = "num"

\* ToBoolean of a number, NaN or undefined: 0, NaN and undefined are falsy.
Truthy(x) == IsNum(x) /\ x.n # 0

\* a || b
OrElse(a, b) == IF Truthy(a) THEN a ELSE b

\* a === b on these values (NaN is equal to nothing)
StrictEq(a, b) == IsNum(a) /\ IsNum(b) /\ a.n = b.n /\ a.d = b.d

Add(x, y) ==
  IF IsNum(x) /\ IsNum(y)
  THEN LET l == (x.d \div GCD(x.d, y.d)) * y.d
       IN  Num(x.n * (l \div x.d) + y.n * (l \div y.d), l)
  ELSE NaN

Neg(x) == IF IsNum(x) THEN [x EXCEPT !.n = -x.n] ELSE NaN

Sub(x, y) == Add(x, Neg(y))

Mul(x, y) ==
  IF IsNum(x) /\ IsNum(y)
  THEN LET a == Num(x.n, y.d)
           b == Num(y.n, x.d)
       IN  Num(a.n * b.n, a.d * b.d)
  ELSE NaN

Div(x, y) ==
  IF IsNum(x) /\ IsNum(y)
  THEN IF y.n = 0
       THEN IF x.n = 0 THEN NaN ELSE Infinity(IF x.n < 0 THEN -1 ELSE 1)
       ELSE Mul(x, IF y.n < 0 THEN Num(-y.d, -y.n) ELSE Num(y.d, y.n))
  ELSE NaN

\* x < y, x <= y: false when either side is not a number
Lt(x, y) == IsNum(x) /\ IsNum(y) /\ x.n * y.d < y.n * x.d
Le(x, y) == IsNum(x) /\ IsNum(y) /\ x.n * y.d <= y.n * x.d

\* the integer part of a rational, truncated toward zero
Trunc(x) == IF x.n < 0 THEN -((-x.n) \div x.d) ELSE x.n \div x.d

\* x % y: the remainder has the sign of the dividend
Rem(x, y) ==
  IF IsNum(x) /\ IsNum(y) /\ y.n # 0
  THEN Sub(x, Mul(y, Whole(Trunc(Div(x, y)))))
  ELSE NaN

MathAbs(x) == IF IsNum(x) THEN [x EXCEPT !.n = Abs(x.n)] ELSE NaN

\* Math.round: the nearest integer, a tie going toward +Infinity
MathRound(x) ==
  IF IsNum(x)
  THEN LET y == Add(x, Num(1, 2)) IN Whole(y.n \div y.d)
  ELSE NaN

Max2(x, y) == IF ~(IsNum(x) /\ IsNum(y)) THEN NaN ELSE IF Lt(x, y) THEN y ELSE x
Min2(x, y) == IF ~(IsNum(x) /\ IsNum(y)) THEN NaN ELSE IF Lt(y, x) THEN y ELSE x
MathMax(x, y, z) == Max2(Max2(x, y), z)
MathMin(x, y, z) == Min2(Min2(x, y), z)

-----------------------------------------------------------------------------
(* The constructor and the accessors.                                      *)

\* $rgb.indexOf(_max): the first position holding _max, 1-based; 0 if none
indexOf(rgb, x) ==
  IF StrictEq(rgb[1], x) THEN 1
  ELSE IF StrictEq(rgb[2], x) THEN 2
  ELSE IF StrictEq(rgb[3], x) THEN 3
  ELSE 0

\* the three hue functions of the constructor, selected by the position of _max
hueOf(i, r, g, b, _chroma) ==
  CASE i = 1 -> Mul(Rem(Div(Sub(g, b), _chroma), Whole(6)), Whole(60))
    [] i = 2 -> Mul(Add(Div(Sub(b, r), _chroma), Whole(2)), Whole(60))
    [] i = 3 -> Mul(Add(Div(Sub(r, g), _chroma), Whole(4)), Whole(60))

Color(red, grn, blu) ==
  LET _RED   == OrElse(red, Whole(0))
      _GREEN == OrElse(grn, _RED)
      _BLUE  == OrElse(blu, _RED)
      _max == Div(MathMax(_RED, _GREEN, _BLUE), Whole(255))
      _min == Div(MathMin(_RED, _GREEN, _BLUE), Whole(255))
      _chroma == Sub(_max, _min)
      rgb == << Div(_RED, Whole(255)), Div(_GREEN, Whole(255)), Div(_BLUE, Whole(255)) >>
      _HSV_HUE == IF StrictEq(_chroma, Whole(0)) THEN Whole(0)
                  ELSE hueOf(indexOf(rgb, _max), rgb[1], rgb[2], rgb[3], _chroma)
      _HSV_VAL == _max
      _HSV_SAT == Div(_chroma, _HSV_VAL)
      _HSL_HUE == _HSV_HUE
      _HSL_LUM == Mul(Num(1, 2), Add(_max, _min))
      _HSL_SAT == IF StrictEq(_chroma, Whole(0)) THEN Whole(0)
                  ELSE Div(_chroma,
                           IF Le(_HSL_LUM, Num(1, 2))
                           THEN Mul(Whole(2), _HSL_LUM)
                           ELSE Sub(Whole(2), Mul(Whole(2), _HSL_LUM)))
  IN  [t |-> "Color",
       _RED |-> _RED, _GREEN |-> _GREEN, _BLUE |-> _BLUE,
       _HSV_HUE |-> _HSV_HUE, _HSV_SAT |-> _HSV_SAT, _HSV_VAL |-> _HSV_VAL,
       _HSL_HUE |-> _HSL_HUE, _HSL_SAT |-> _HSL_SAT, _HSL_LUM |-> _HSL_LUM]

red(c)   == c._RED
green(c) == c._GREEN
blue(c)  == c._BLUE
hsvHue(c) == c._HSV_HUE
hsvSat(c) == c._HSV_SAT
hsvVal(c) == c._HSV_VAL
hslHue(c) == c._HSL_HUE
hslSat(c) == c._HSL_SAT
hslLum(c) == c._HSL_LUM
rgb(c) == << red(c), green(c), blue(c) >>
hsv(c) == << hsvHue(c), hsvSat(c), hsvVal(c) >>
hsl(c) == << hslHue(c), hslSat(c), hslLum(c) >>

\* a thrown TypeError, as the outcome of a call
TypeError == [t |-> "TypeError"]

-----------------------------------------------------------------------------
(* Derivation methods and the HSV/HSL factories.                           *)

complement(c) ==
  Color(Sub(Whole(255), red(c)), Sub(Whole(255), green(c)), Sub(Whole(255), blue(c)))

\* the if / else-if chain of fromHSV and fromHSL over the six sextants; the
\* empty tuple stands for `rgb` left undefined when no branch is taken
sextant(hue, c, x) ==
  IF      Le(Whole(0), hue)   /\ Lt(hue, Whole(60))  THEN << c, x, Whole(0) >>
  ELSE IF Le(Whole(60), hue)  /\ Lt(hue, Whole(120)) THEN << x, c, Whole(0) >>
  ELSE IF Le(Whole(120), hue) /\ Lt(hue, Whole(180)) THEN << Whole(0), c, x >>
  ELSE IF Le(Whole(180), hue) /\ Lt(hue, Whole(240)) THEN << Whole(0), x, c >>
  ELSE IF Le(Whole(240), hue) /\ Lt(hue, Whole(300)) THEN << x, Whole(0), c >>
  ELSE IF Le(Whole(300), hue) /\ Lt(hue, Whole(360)) THEN << c, Whole(0), x >>
  ELSE << >>

\* rgb.map(el => Math.round((el + m) * 255)) and the constructor call; calling
\* .map on undefined throws a TypeError
scaled(triple, m) ==
  IF triple = << >> THEN TypeError
  ELSE Color(MathRound(Mul(Add(triple[1], m), Whole(255))),
             MathRound(Mul(Add(triple[2], m), Whole(255))),
             MathRound(Mul(Add(triple[3], m), Whole(255))))

\* c * (1 - Math.abs(hue/60 % 2 - 1))
intermediate(c, hue) ==
  Mul(c, Sub(Whole(1), MathAbs(Sub(Rem(Div(hue, Whole(60)), Whole(2)), Whole(1)))))

fromHSV(hue, sat, val) ==
  LET c == Mul(sat, val)
      x == intermediate(c, hue)
      m == Sub(val, c)
  IN  scaled(sextant(hue, c, x), m)

\* rotate(a): % keeps the sign of the sum
rotate(c, a) ==
  LET newhue == Rem(Add(hsvHue(c), a), Whole(360))
  IN  fromHSV(newhue, hsvSat(c), hsvVal(c))

invert(c) == rotate(c, Whole(180))

fromHSL(hue, sat, lum) ==
  LET c == Mul(sat, Sub(Whole(1), MathAbs(Sub(Mul(Whole(2), lum), Whole(1)))))
      x == intermediate(c, hue)
      m == Sub(lum, Div(c, Whole(2)))
  IN  scaled(sextant(hue, c, x), m)

isGrayscale(c) == StrictEq(hsvSat(c), Whole(0))

-----------------------------------------------------------------------------
(* IEEE-754 doubles, for the weighted average of mix().  A finite double   *)
(* that is not negative is [t |-> "double", m, e], the value m * 2^e, with *)
(* m a natural number written as its bits, least significant first, and no *)
(* leading zero.  Each operation computes the exact result and rounds it   *)
(* to 53 significant bits, ties to even, as the hardware does.  (The       *)
(* exponents that occur are far from the overflow and subnormal ranges.)   *)
(* The bit strings are added and multiplied 16 bits at a time.             *)

Precision == 53

Zeros(k) == [i \in 1 .. k |-> 0]

RECURSIVE Strip(_)
Strip(b) ==
  IF b = << >> \/ b[Len(b)] = 1 THEN b ELSE Strip(SubSeq(b, 1, Len(b) - 1))

\* the bits of a natural number below 2^31, least significant first
BitsOf(n) ==
  IF n = 0 THEN << >>
  ELSE LET len == CHOOSE k \in 1 .. 31 : n \div 2^(k - 1) = 1
       IN  [i \in 1 .. len |-> (n \div 2^(i - 1)) % 2]

\* the number a bit string of at most 30 bits writes
RECURSIVE ValueOf(_)
ValueOf(b) ==
  IF b = << >> THEN 0
  ELSE IF Len(b) = 1 THEN b[1]
  ELSE LET h == Len(b) \div 2
       IN  ValueOf(SubSeq(b, 1, h)) + 2^h * ValueOf(SubSeq(b, h + 1, Len(b)))

\* v < 2^width written on exactly `width` bits
Field(v, width) == LET b == BitsOf(v) IN b \o Zeros(width - Len(b))

\* the number of 16-bit chunks of b, and the value of chunk j (from 0)
Chunks(b) == (Len(b) + 15) \div 16
Chunk(b, j) ==
  ValueOf(SubSeq(b, 16 * j + 1, IF 16 * j + 16 > Len(b) THEN Len(b) ELSE 16 * j + 16))

RECURSIVE AddChunks(_, _, _, _)
AddChunks(a, b, j, carry) ==
  IF j >= Chunks(a) /\ j >= Chunks(b) THEN BitsOf(carry)
  ELSE LET s == Chunk(a, j) + Chunk(b, j) + carry
       IN  Field(s % 65536, 16) \o AddChunks(a, b, j + 1, s \div 65536)

AddBits(a, b) == Strip(AddChunks(a, b, 0, 0))

\* a - b for a >= b
RECURSIVE SubChunks(_, _, _, _)
SubChunks(a, b, j, borrow) ==
  IF j >= Chunks(a) THEN << >>
  ELSE LET s == Chunk(a, j) - Chunk(b, j) - borrow
       IN  Field(s % 65536, 16) \o SubChunks(a, b, j + 1, IF s < 0 THEN 1 ELSE 0)

SubBits(a, b) == Strip(SubChunks(a, b, 0, 0))

\* b times a natural number n below 2^15
RECURSIVE MulChunks(_, _, _, _)
MulChunks(b, n, j, carry) ==
  IF j >= Chunks(b) THEN BitsOf(carry)
  ELSE LET s == Chunk(b, j) * n + carry
       IN  Field(s % 65536, 16) \o MulChunks(b, n, j + 1, s \div 65536)

\* a * b, taking a 15 bits at a time
RECURSIVE MulBits(_, _)
MulBits(a, b) ==
  IF a = << >> THEN << >>
  ELSE LET cut == IF Len(a) < 15 THEN Len(a) ELSE 15
           low == MulChunks(b, ValueOf(SubSeq(a, 1, cut)), 0, 0)
           high == MulBits(SubSeq(a, cut + 1, Len(a)), b)
       IN  AddBits(low, Zeros(15) \o high)

Double(m, e) == [t |-> "double", m |-> Strip(m), e |-> e]

\* round to nearest, ties to even, at 53 significant bits
RoundToNearest(x) ==
  LET k == Len(x.m) - Precision
  IN  IF k <= 0 THEN x
      ELSE LET q == SubSeq(x.m, k + 1, Len(x.m))
               guard == x.m[k]
               sticky == \E i \in 1 .. (k - 1) : x.m[i] = 1
               up == guard = 1 /\ (sticky \/ q[1] = 1)
           IN  Double(IF up THEN AddBits(q, << 1 >>) ELSE q, x.e + k)

\* the mantissa of x at the exponent e <= x.e
AtExponent(x, e) == IF x.m = << >> THEN << >> ELSE Zeros(x.e - e) \o x.m

MinExp(x, y) == IF x.e < y.e THEN x.e ELSE y.e

DoubleAdd(x, y) ==
  LET e == MinExp(x, y)
  IN  RoundToNearest(Double(AddBits(AtExponent(x, e), AtExponent(y, e)), e))

\* x - y for x >= y
DoubleSub(x, y) ==
  LET e == MinExp(x, y)
  IN  RoundToNearest(Double(SubBits(AtExponent(x, e), AtExponent(y, e)), e))

DoubleMul(x, y) ==
  RoundToNearest(Double(IF Len(x.m) <= Len(y.m) THEN MulBits(x.m, y.m)
                                               ELSE MulBits(y.m, x.m),
                        x.e + y.e))

\* the double of a natural number below 2^31
DoubleOfNat(n) == Double(BitsOf(n), 0)

\* the next 13 * groups binary digits of r/den < 1 (den < 2^18), least
\* significant first, and the remainder left
RECURSIVE Expansion(_, _, _)
Expansion(r, den, groups) ==
  IF groups = 0 THEN [bits |-> << >>, r |-> r]
  ELSE LET rest == Expansion((r * 8192) % den, den, groups - 1)
       IN  [bits |-> rest.bits \o Field((r * 8192) \div den, 13), r |-> rest.r]

RECURSIVE Scale(_, _, _)
Scale(k, den, j) == IF k >= den THEN j ELSE Scale(2 * k, den, j + 1)

RECURSIVE Pow2(_)
Pow2(j) == IF j = 0 THEN 1 ELSE 2 * Pow2(j - 1)

\* the double nearest to k/den, for 0 <= k <= den: what the decimal literal
\* (or the division k/den) evaluates to.  k/den is scaled into [1, 2), its
\* leading 1 and 52 more digits are taken, and the remainder rounds them.
DoubleOfRatio(k, den) ==
  IF k = 0 THEN Double(<< >>, 0)
  ELSE LET j == Scale(k, den, 0)
           x == Expansion(k * Pow2(j) - den, den, (Precision - 1) \div 13)
           q == x.bits \o << 1 >>
           up == 2 * x.r > den \/ (2 * x.r = den /\ q[1] = 1)
       IN  Double(IF up THEN AddBits(q, << 1 >>) ELSE q, -j - (Precision - 1))

\* Math.round of a double that is not negative, as a natural number
DoubleRound(x) ==
  IF x.e >= 0 THEN ValueOf(AtExponent(x, 0))
  ELSE LET k == -x.e
       IN  IF k > Len(x.m) THEN 0
           ELSE ValueOf(SubSeq(x.m, k + 1, Len(x.m))) + x.m[k]

DoubleIsZero(x) == x.t = "double" /\ x.m = << >>

\* function average(a, b, w) of mix
average(a, b, w) ==
  DoubleAdd(DoubleMul(a, DoubleSub(DoubleOfNat(1), w)), DoubleMul(b, w))

\* mix: the weight is a double or undefined; the channels are whole numbers
mix(this, color, weight) ==
  LET w == IF ~DoubleIsZero(weight)
           THEN (IF weight.t = "double" THEN weight ELSE DoubleOfRatio(1, 2))
           ELSE weight
      r == DoubleRound(average(DoubleOfNat(red(this).n),   DoubleOfNat(red(color).n),   w))
      g == DoubleRound(average(DoubleOfNat(green(this).n), DoubleOfNat(green(color).n), w))
      b == DoubleRound(average(DoubleOfNat(blue(this).n),  DoubleOfNat(blue(color).n),  w))
  IN  Color(Whole(r), Whole(g), Whole(b))

-----------------------------------------------------------------------------
(* More of the doubles, for contrastRatio(): comparison, division and the  *)
(* decimal literals of the luminance formula.                              *)

\* a < b on the bits top .. 1 of two bit strings, compared 26 bits at a time
\* from the top
RECURSIVE LessFrom(_, _, _)
LessFrom(a, b, top) ==
  IF top = 0 THEN FALSE
  ELSE LET low == IF top > 26 THEN top - 25 ELSE 1
           va == ValueOf(SubSeq(a, low, top))
           vb == ValueOf(SubSeq(b, low, top))
       IN  IF va # vb THEN va < vb ELSE LessFrom(a, b, low - 1)

\* a < b for two bit strings with no leading zero
LessBits(a, b) ==
  \/ Len(a) < Len(b)
  \/ Len(a) = Len(b) /\ LessFrom(a, b, Len(a))

\* x < y and x <= y
DoubleLt(x, y) ==
  LET e == MinExp(x, y) IN LessBits(AtExponent(x, e), AtExponent(y, e))

DoubleLe(x, y) == ~DoubleLt(y, x)

\* a bit string of at most 53 bits as two numbers: the low 26 bits and the rest
Halves(b) ==
  [lo |-> ValueOf(SubSeq(b, 1, IF Len(b) < 26 THEN Len(b) ELSE 26)),
   hi |-> IF Len(b) <= 26 THEN 0 ELSE ValueOf(SubSeq(b, 27, Len(b)))]

\* long division by d: count bits of the dividend, from position i downward,
\* are brought down one at a time onto the remainder rem (both in halves);
\* q collects the bits of the quotient
RECURSIVE DivBits(_, _, _, _, _, _)
DivBits(rem, d, bits, i, count, q) ==
  IF count = 0 \/ i = 0 \/ rem.hi + Len(q) < 0 THEN [q |-> q, rem |-> rem]
  ELSE LET lo == 2 * rem.lo + bits[i]
           hi == 2 * rem.hi + (lo \div 67108864)
           low == lo % 67108864
           ge == hi > d.hi \/ (hi = d.hi /\ low >= d.lo)
           borrow == IF low < d.lo THEN 1 ELSE 0
       IN  IF ge
           THEN DivBits([lo |-> low + 67108864 * borrow - d.lo,
                         hi |-> hi - d.hi - borrow], d, bits, i - 1, count - 1,
                        << 1 >> \o q)
           ELSE DivBits([lo |-> low, hi |-> hi], d, bits, i - 1, count - 1,
                        << 0 >> \o q)

\* the same for all the bits from position i down to 1, 8 bits at a time
RECURSIVE DivSteps(_, _, _, _)
DivSteps(r, d, bits, i) ==
  IF i = 0 \/ r.rem.hi < 0 THEN r
  ELSE DivSteps(DivBits(r.rem, d, bits, i, 8, r.q), d, bits,
                IF i > 8 THEN i - 8 ELSE 0)

\* x / y for y > 0: the quotient is taken to 55 bits or more, a last bit
\* records whether a remainder is left, and the whole is rounded
DoubleDiv(x, y) ==
  IF x.m = << >> THEN x
  ELSE LET s == Precision + 2 + Len(y.m) - Len(x.m)
           bits == Zeros(s) \o x.m
           top == Len(y.m) - 1
           r == DivSteps([q |-> << >>,
                          rem |-> Halves(SubSeq(bits, Len(bits) - top + 1, Len(bits)))],
                         Halves(y.m), bits, Len(bits) - top)
           sticky == IF r.rem.lo = 0 /\ r.rem.hi = 0 THEN 0 ELSE 1
       IN  RoundToNearest(Double(<< sticky >> \o r.q, x.e - y.e - s - 1))

\* the double of the decimal literal k/den * 2^shift, for k <= den
Literal(k, den, shift) ==
  LET x == DoubleOfRatio(k, den) IN Double(x.m, x.e + shift)

-----------------------------------------------------------------------------
(* Math.pow(x, 2.4).  The real power x^(12/5) is bracketed exactly: with   *)
(* x = m * 2^e and F the exponent that gives the result 53 bits, the       *)
(* largest 53-bit n with n^5 * 2^(5F) <= m^12 * 2^(12e) is found one bit   *)
(* at a time.  Math.pow is implementation-approximated: unless the power   *)
(* is a double itself, a build returns the double just below it or the     *)
(* one just above.  The long integers are sequences of limbs, digits in    *)
(* base 4096, least significant first, with no leading zero limb.          *)

Base == 4096

LimbsOf(b) ==
  [j \in 1 .. (Len(b) + 11) \div 12 |->
     ValueOf(SubSeq(b, 12 * j - 11, IF 12 * j > Len(b) THEN Len(b) ELSE 12 * j))]

\* the sum of a[i] * b[k + 1 - i] for i in lo .. hi
RECURSIVE SumTerms(_, _, _, _, _)
SumTerms(a, b, k, lo, hi) ==
  IF lo > hi THEN 0
  ELSE IF lo = hi THEN a[lo] * b[k + 1 - lo]
  ELSE LET mid == (lo + hi) \div 2
       IN  SumTerms(a, b, k, lo, mid) + SumTerms(a, b, k, mid + 1, hi)

\* column k of the product a * b, before the carries
Column(a, b, k) ==
  SumTerms(a, b, k, IF k + 1 - Len(b) > 1 THEN k + 1 - Len(b) ELSE 1,
                    IF k < Len(a) THEN k ELSE Len(a))

\* the carries taken through the columns lo .. hi of c
RECURSIVE Carry(_, _, _, _)
Carry(c, lo, hi, carry) ==
  IF lo = hi
  THEN LET v == c[lo] + carry IN [d |-> << v % Base >>, carry |-> v \div Base]
  ELSE LET mid == (lo + hi) \div 2
           l == Carry(c, lo, mid, carry)
           h == Carry(c, mid + 1, hi, l.carry)
       IN  [d |-> l.d \o h.d, carry |-> h.carry]

StripLimbs(d) ==
  LET top == CHOOSE i \in 0 .. Len(d) :
               (i = 0 \/ d[i] # 0) /\ \A j \in (i + 1) .. Len(d) : d[j] = 0
  IN  SubSeq(d, 1, top)

\* the limbs of the number whose columns are c (each below 2^30)
Normal(c) ==
  IF c = << >> THEN << >>
  ELSE LET r == Carry(c, 1, Len(c), 0)
       IN  StripLimbs(r.d \o << r.carry % Base, r.carry \div Base >>)

LimbMul(a, b) ==
  IF a = << >> \/ b = << >> THEN << >>
  ELSE Normal([k \in 1 .. Len(a) + Len(b) - 1 |-> Column(a, b, k)])

\* a * 2^k
LimbShift(a, k) ==
  Normal([j \in 1 .. Len(a) + k \div 12 |->
            IF j <= k \div 12 THEN 0 ELSE a[j - k \div 12] * Pow2(k % 12)])

LimbLess(a, b) ==
  \/ Len(a) < Len(b)
  \/ /\ Len(a) = Len(b)
     /\ \E i \in 1 .. Len(a) :
          /\ a[i] < b[i]
          /\ \A j \in (i + 1) .. Len(a) : a[j] = b[j]

\* the number of bits of a > 0
BitLength(a) == 12 * (Len(a) - 1) + Len(BitsOf(a[Len(a)]))

\* the 53 bits of a 53-bit number given by its limbs
BitsOfLimbs(n) ==
  [i \in 1 .. Precision |-> (n[(i - 1) \div 12 + 1] \div Pow2((i - 1) % 12)) % 2]

Square(a) == LimbMul(a, a)

Pow5(n) == LimbMul(n, Square(Square(n)))

Pow12(m) ==
  LET m4 == Square(Square(m)) IN LimbMul(m4, Square(m4))

\* n with bit i (from 0) set, where it is clear
SetBit(n, i) == [n EXCEPT ![i \div 12 + 1] = @ + Pow2(i % 12)]

\* count bits of n, from bit i downward, are settled: a bit is set when the
\* fifth power, times 2^up, stays at or below the bound
RECURSIVE RootBits(_, _, _, _, _)
RootBits(n, i, count, bound, up) ==
  IF count = 0 \/ i < 0 \/ n = << >> THEN n
  ELSE LET cand == SetBit(n, i)
       IN  RootBits(IF LimbLess(bound, LimbShift(Pow5(cand), up)) THEN n ELSE cand,
                    i - 1, count - 1, bound, up)

\* the same from bit i down to bit 0, 13 bits at a time
RECURSIVE Root5(_, _, _, _)
Root5(n, i, bound, up) ==
  IF i < 0 \/ n = << >> THEN n
  ELSE Root5(RootBits(n, i, 13, bound, up), i - 13, bound, up)

\* n * 2^e is the largest double not above the power, which it is exactly
\* when n^5 * 2^s is the bound; a build that rounds up returns the double
\* after it unless it is exact
Rounded(n, e, s, bound, up) ==
  IF up /\ LimbShift(Pow5(n), s) # bound
  THEN RoundToNearest(Double(AddBits(BitsOfLimbs(n), << 1 >>), e))
  ELSE Double(BitsOfLimbs(n), e)

\* X = m^12 is brought to the scale of a fifth power of 53 bits: k bits are
\* dropped from the fifth power (k > 0) or added to X (k < 0)
PowScaled(x, X, k, up) ==
  Rounded(Root5(LimbsOf(Zeros(Precision - 1) \o << 1 >>), Precision - 2,
                IF k < 0 THEN LimbShift(X, -k) ELSE X, IF k > 0 THEN k ELSE 0),
          (12 * x.e + k) \div 5, IF k > 0 THEN k ELSE 0,
          IF k < 0 THEN LimbShift(X, -k) ELSE X, up)

\* the power of x = m * 2^e from X = m^12
PowBracket(x, X, up) ==
  LET goal == 5 * Precision - 4
  IN  PowScaled(x, X,
                BitLength(X) - goal - ((12 * x.e + BitLength(X) - goal) % 5), up)

\* Math.pow(x, 2.4) for x > 0, in a build that rounds inexact powers up, or down
pow(x, up) == PowBracket(x, Pow12(LimbsOf(x.m)), up)

-----------------------------------------------------------------------------
(* contrastRatio().  `up` is the way the build's Math.pow rounds.          *)

\* the literals 0.03928, 12.92, 0.055, 1.055, 0.2126, 0.7152, 0.0722, 0.05
Threshold == Literal(491, 12500, 0)
Slope == Literal(323, 400, 4)
Offset == Literal(11, 200, 0)
Gain == Literal(211, 400, 1)
RedShare == Literal(1063, 5000, 0)
GreenShare == Literal(447, 625, 0)
BlueShare == Literal(361, 5000, 0)
Flare == Literal(1, 20, 0)

\* function coef(p) of luma
coef(p, up) ==
  IF DoubleLe(p, Threshold)
  THEN DoubleDiv(p, Slope)
  ELSE pow(DoubleDiv(DoubleAdd(p, Offset), Gain), up)

\* the channel arguments the session passes to the constructor
Chan == (0 .. MaxLow) \cup ((255 - MaxLow) .. 255)

\* coef(v / 255) for the channel values v
ChannelCoef == [v \in Chan, up \in BOOLEAN |-> coef(DoubleOfRatio(v, 255), up)]

\* lines 331 to 333 of luma, for a color whose channels are r, g and b
lumaOf(r, g, b, up) ==
  DoubleAdd(DoubleAdd(DoubleMul(RedShare, ChannelCoef[r, up]),
                      DoubleMul(GreenShare, ChannelCoef[g, up])),
            DoubleMul(BlueShare, ChannelCoef[b, up]))

\* the same, kept for the colors of the sessions
ChannelLuma ==
  [r \in Chan, g \in Chan, b \in Chan, up \in BOOLEAN |-> lumaOf(r, g, b, up)]

\* function luma(c) of contrastRatio
luma(c, up) == ChannelLuma[red(c).n, green(c).n, blue(c).n, up]

DoubleMax(x, y) == IF DoubleLt(x, y) THEN y ELSE x
DoubleMin(x, y) == IF DoubleLt(y, x) THEN y ELSE x

\* the ratio without Math.max and Math.min: the first luma over the second
ratioUnordered(both) ==
  DoubleDiv(DoubleAdd(both[1], Flare), DoubleAdd(both[2], Flare))

\* line 336, the ratio of the two lumas of `both`
ratio(both) ==
  DoubleDiv(DoubleAdd(DoubleMax(both[1], both[2]), Flare),
            DoubleAdd(DoubleMin(both[1], both[2]), Flare))

contrastRatio(this, color, up) == ratio(<< luma(this, up), luma(color, up) >>)

-----------------------------------------------------------------------------
(* Strings: a string is the sequence of its characters; as a JavaScript    *)
(* value it is [t |-> "string", s |-> characters].                         *)

Str(chars) == [t |-> "string", s |-> chars]

HexChars == << "0", "1", "2", "3", "4", "5", "6", "7",
               "8", "9", "a", "b", "c", "d", "e", "f" >>

\* '0123456789abcdef'.charAt(i): the empty string outside 0..15
charAt(i) == IF i \in 0 .. 15 THEN << HexChars[i + 1] >> ELSE << >>

\* String.prototype.slice(from, to), negative positions counting from the end
slice(s, from, to) ==
  LET len == Len(s)
      a == IF from < 0 THEN (IF len + from < 0 THEN 0 ELSE len + from)
                       ELSE (IF from > len THEN len ELSE from)
      b == IF to < 0 THEN (IF len + to < 0 THEN 0 ELSE len + to)
                     ELSE (IF to > len THEN len ELSE to)
  IN  SubSeq(s, a + 1, b)

\* String.prototype.split(sep) for a one-character separator
RECURSIVE split(_, _)
split(s, sep) ==
  IF \E i \in 1 .. Len(s) : s[i] = sep
  THEN LET i == CHOOSE i \in 1 .. Len(s) :
                  s[i] = sep /\ \A j \in 1 .. (i - 1) : s[j] # sep
       IN  << SubSeq(s, 1, i - 1) >> \o split(SubSeq(s, i + 1, Len(s)), sep)
  ELSE << s >>

\* element i (0-based) of an array of strings; undefined past its end
element(array, i) == IF i < Len(array) THEN Str(array[i + 1]) ELSE Undefined

RECURSIVE trimStart(_)
trimStart(s) == IF s # << >> /\ s[1] = " " THEN trimStart(Tail(s)) ELSE s

RECURSIVE trimEnd(_)
trimEnd(s) ==
  IF s # << >> /\ s[Len(s)] = " " THEN trimEnd(SubSeq(s, 1, Len(s) - 1)) ELSE s

IsDigit(ch) == \E i \in 1 .. 10 : HexChars[i] = ch
DigitOf(ch) == (CHOOSE i \in 1 .. 10 : HexChars[i] = ch) - 1

RECURSIVE NatOf(_)
NatOf(s) ==
  IF s = << >> THEN 0
  ELSE 10 * NatOf(SubSeq(s, 1, Len(s) - 1)) + DigitOf(s[Len(s)])

RECURSIVE Pow10(_)
Pow10(k) == IF k = 0 THEN 1 ELSE 10 * Pow10(k - 1)

\* an unsigned decimal literal: digits, optionally a point and more digits
Unsigned(s) ==
  LET parts == split(s, ".")
      whole == parts[1]
      frac  == IF Len(parts) = 2 THEN parts[2] ELSE << >>
      all   == whole \o frac
  IN  IF Len(parts) <= 2 /\ all # << >> /\ \A i \in 1 .. Len(all) : IsDigit(all[i])
      THEN Num(NatOf(all), Pow10(Len(frac)))
      ELSE NaN

\* the unary plus: ToNumber of a string (trimmed; empty is 0; a signed decimal
\* literal is its value; anything else is NaN), of undefined (NaN), of a number
ToNumber(v) ==
  IF v.t = "string"
  THEN LET s == trimEnd(trimStart(v.s))
       IN  IF s = << >> THEN Whole(0)
           ELSE IF s[1] = "-" THEN Neg(Unsigned(Tail(s)))
           ELSE IF s[1] = "+" THEN Unsigned(Tail(s))
           ELSE Unsigned(s)
  ELSE IF v.t = "num" THEN v
  ELSE NaN

\* the decimal digits of a natural number
RECURSIVE NatStr(_)
NatStr(n) ==
  IF n < 10 THEN << HexChars[n + 1] >>
  ELSE NatStr(n \div 10) \o << HexChars[(n % 10) + 1] >>

\* string concatenation of a whole number that is not negative
NumStr(x) == NatStr(x.n)

\* function toHex(n) of toString, for a whole number n
toHex(n) == charAt((n.n - (n.n % 16)) \div 16) \o charAt(n.n % 16)

\* toString(space) for the spaces 'hex' and 'rgb' (the default)
toString(c, space) ==
  IF space = "hex"
  THEN << "#" >> \o toHex(red(c)) \o toHex(green(c)) \o toHex(blue(c))
  ELSE << "r", "g", "b", "(" >> \o NumStr(red(c)) \o << ",", " " >>
         \o NumStr(green(c)) \o << ",", " " >> \o NumStr(blue(c)) \o << ")" >>

fromRGB(rgb_string) ==
  LET splitted == split(slice(rgb_string, 4, -1), ",")
  IN  Color(ToNumber(element(splitted, 0)),
            ToNumber(element(splitted, 1)),
            ToNumber(element(splitted, 2)))

\* function toDec(x) of fromHex
toDec(x) ==
  LET first  == slice(x, 0, 1)
      second == slice(x, 1, 2)
      tens == IF \E i \in 0 .. 15 : charAt(i) = first
              THEN 16 * (CHOOSE i \in 0 .. 15 : charAt(i) = first) ELSE 0
      ones == IF \E i \in 0 .. 15 : charAt(i) = second
              THEN (CHOOSE i \in 0 .. 15 : charAt(i) = second) ELSE 0
  IN  Whole(tens + ones)

fromHex(hex_string) ==
  LET r_hex == slice(hex_string, 1, 3)
      g_hex == slice(hex_string, 3, 5)
      b_hex == slice(hex_string, 5, 7)
  IN  Color(toDec(r_hex), toDec(g_hex), toDec(b_hex))

\* typeCheck(arg): arg is a Color, a string, a number (NaN included) or
\* another value.  fromHSV and fromHSL receive the string as their hue and
\* nothing else: a string that starts with 'hsv(' or 'hsl(' converts to NaN
\* wherever they use it as a number.
typeCheck(arg) ==
  IF arg.t = "Color" THEN arg
  ELSE IF arg.t = "string"
  THEN IF slice(arg.s, 0, 1) = << "#" >> THEN fromHex(arg.s)
       ELSE IF slice(arg.s, 0, 4) = << "r", "g", "b", "(" >> THEN fromRGB(arg.s)
       ELSE IF slice(arg.s, 0, 4) = << "h", "s", "v", "(" >>
            THEN fromHSV(arg, Undefined, Undefined)
       ELSE IF slice(arg.s, 0, 4) = << "h", "s", "l", "(" >>
            THEN fromHSL(arg, Undefined, Undefined)
       ELSE Color(Undefined, Undefined, Undefined)
  ELSE IF arg.t \in {"num", "NaN"}
  THEN LET graytone == Min2(Max2(Whole(0), arg), Whole(255))
       IN  Color(ToNumber(graytone), ToNumber(graytone), ToNumber(graytone))
  ELSE Color(Undefined, Undefined, Undefined)

-----------------------------------------------------------------------------
(* ColorAlpha.  Its superclass is required from './Color.class.js': the    *)
(* superclass constructor keeps the three components it is given, and      *)
(* `rgb` is the array of them.                                             *)

ColorBase(r, g, b) ==
  [t |-> "ColorAlpha", _RED |-> r, _GREEN |-> g, _BLUE |-> b]

rgbOf(c) == << c._RED, c._GREEN, c._BLUE >>

\* a default parameter value replaces an argument that is undefined
Default(v, d) == IF v.t = "undefined" THEN d ELSE v

\* constructor(red = 0, green = 0, blue = 0, alpha = 1) { super(red, green, blue) }
\* the object gets no property for alpha
ColorAlpha(r, g, b, alpha) ==
  ColorBase(Default(r, Whole(0)), Default(g, Whole(0)), Default(b, Whole(0)))

\* this.alpha: the value of the property, undefined when the object has none
alphaOf(c) == IF "alpha" \in DOMAIN c THEN c.alpha ELSE Undefined

negative(this) ==
  LET triple == rgbOf(this)
  IN  ColorAlpha(triple[1], triple[2], triple[3], Sub(Whole(1), alphaOf(this)))

-----------------------------------------------------------------------------
(* The session: a client builds a receiver (self), possibly a second color *)
(* (other), and makes a call; pc is its position.                          *)

VARIABLES pc, self, other, op, in, out

vars == << pc, self, other, op, in, out >>

\* weights and alphas are the multiples of 1/WeightDen in [0, 1]
WeightDen == 10

\* the hexadecimal digits the session writes
HexSample == (0 .. MaxLow) \cup ((15 - MaxLow) .. 15)

\* '#' and six lowercase hex digits
HexString(ds) ==
  << "#" >> \o charAt(ds[1]) \o charAt(ds[2]) \o charAt(ds[3])
            \o charAt(ds[4]) \o charAt(ds[5]) \o charAt(ds[6])

HexInputs ==
  { [s |-> HexString(ds),
     denotes |-> << 16 * ds[1] + ds[2], 16 * ds[3] + ds[4], 16 * ds[5] + ds[6] >>] :
    ds \in HexSample \X HexSample \X HexSample \X HexSample \X HexSample \X HexSample }

\* 'rgb(r, g, b)' and 'rgb(r,g,b)'
RgbString(r, g, b, gap) ==
  << "r", "g", "b", "(" >> \o NatStr(r) \o << "," >> \o gap
     \o NatStr(g) \o << "," >> \o gap \o NatStr(b) \o << ")" >>

RgbInputs ==
  { [s |-> RgbString(t[1], t[2], t[3], gap), denotes |-> t] :
    t \in Chan \X Chan \X Chan, gap \in { << >>, << " " >> } }

\* 'hsv(0, 1, 1)' is red, 'hsv(120, 1, 1)' and 'hsl(120, 1, 0.5)' are green,
\* 'hsl(0, 0, 1)' is white
HsxInputs ==
  { [s |-> << "h", "s", "v", "(", "0", ",", " ", "1", ",", " ", "1", ")" >>,
     denotes |-> << 255, 0, 0 >>],
    [s |-> << "h", "s", "v", "(", "1", "2", "0", ",", " ", "1", ",", " ", "1", ")" >>,
     denotes |-> << 0, 255, 0 >>],
    [s |-> << "h", "s", "l", "(", "1", "2", "0", ",", " ", "1", ",", " ", "0", ".", "5", ")" >>,
     denotes |-> << 0, 255, 0 >>],
    [s |-> << "h", "s", "l", "(", "0", ",", " ", "0", ",", " ", "1", ")" >>,
     denotes |-> << 255, 255, 255 >>] }

\* strings with no known prefix denote black
OtherStrings ==
  { [s |-> << >>, denotes |-> << 0, 0, 0 >>],
    [s |-> << "r", "e", "d" >>, denotes |-> << 0, 0, 0 >>],
    [s |-> << "r", "g", "b" >>, denotes |-> << 0, 0, 0 >>],
    [s |-> << "f", "f", "0", "0", "0", "0" >>, denotes |-> << 0, 0, 0 >>] }

Clamp(n) == IF n < 0 THEN 0 ELSE IF n > 255 THEN 255 ELSE n

\* the arguments of typeCheck that are not Color objects, each with the
\* color it stands for (<< >> where none is defined)
TypeCheckInputs ==
  { [arg |-> Str(x.s), denotes |-> x.denotes] :
      x \in HexInputs \cup RgbInputs \cup HsxInputs \cup OtherStrings }
  \cup { [arg |-> Whole(n), denotes |-> << Clamp(n), Clamp(n), Clamp(n) >>] :
           n \in Chan \cup { -1 - MaxLow, 256 + MaxLow } }
  \cup { [arg |-> NaN, denotes |-> << >>] }
  \cup { [arg |-> v, denotes |-> << 0, 0, 0 >>] :
           v \in { Undefined, [t |-> "null", n |-> 0, d |-> 1],
                   [t |-> "boolean", n |-> 1, d |-> 1] } }

Init ==
  /\ pc = "start"
  /\ self = Color(Undefined, Undefined, Undefined)
  /\ other = Color(Undefined, Undefined, Undefined)
  /\ op = "new Color()"
  /\ in = << >>
  /\ out = self

\* self = new Color()
New0 ==
  /\ pc = "start"
  /\ pc' = "self"
  /\ self' = Color(Undefined, Undefined, Undefined)
  /\ op' = "new Color()"
  /\ in' = << >>
  /\ out' = self'
  /\ UNCHANGED other

\* self = new Color(v)
New1 ==
  /\ pc = "start"
  /\ \E v \in Chan :
       /\ self' = Color(Whole(v), Undefined, Undefined)
       /\ in' = << v >>
  /\ pc' = "self"
  /\ op' = "new Color(v)"
  /\ out' = self'
  /\ UNCHANGED other

\* self = new Color(r, g, b)
New3 ==
  /\ pc = "start"
  /\ \E r \in Chan, g \in Chan, b \in Chan :
       /\ self' = Color(Whole(r), Whole(g), Whole(b))
       /\ in' = << r, g, b >>
  /\ pc' = "self"
  /\ op' = "new Color(r, g, b)"
  /\ out' = self'
  /\ UNCHANGED other

\* other = new Color(r, g, b)
NewOther ==
  /\ pc = "self"
  /\ \E r \in Chan, g \in Chan, b \in Chan :
       other' = Color(Whole(r), Whole(g), Whole(b))
  /\ in' = << >>
  /\ pc' = "pair"
  /\ op' = "other = new Color(r, g, b)"
  /\ out' = other'
  /\ UNCHANGED self

\* self.complement()
Complement ==
  /\ pc = "self"
  /\ pc' = "called"
  /\ op' = "complement"
  /\ in' = << >>
  /\ out' = complement(self)
  /\ UNCHANGED << self, other >>

\* self.complement().complement()
ComplementAgain ==
  /\ pc = "called"
  /\ op = "complement"
  /\ op' = "complement.complement"
  /\ out' = complement(out)
  /\ UNCHANGED << pc, self, other, in >>

\* Color.fromHSV.apply(null, self.hsv())
\* the numbers of degrees the session rotates by
Degrees == { -360, -180, -1, 0, 1, 180, 360 }

Rotate ==
  /\ pc = "self"
  /\ pc' = "called"
  /\ op' = "rotate"
  /\ \E a \in Degrees :
       /\ in' = Whole(a)
       /\ out' = rotate(self, Whole(a))
  /\ UNCHANGED << self, other >>

Invert ==
  /\ pc = "self"
  /\ pc' = "called"
  /\ op' = "invert"
  /\ in' = << >>
  /\ out' = invert(self)
  /\ UNCHANGED << self, other >>

FromHSV ==
  /\ pc = "self"
  /\ pc' = "called"
  /\ op' = "fromHSV"
  /\ in' = hsv(self)
  /\ out' = fromHSV(hsvHue(self), hsvSat(self), hsvVal(self))
  /\ UNCHANGED << self, other >>

\* Color.fromHSL.apply(null, self.hsl())
FromHSL ==
  /\ pc = "self"
  /\ pc' = "called"
  /\ op' = "fromHSL"
  /\ in' = hsl(self)
  /\ out' = fromHSL(hslHue(self), hslSat(self), hslLum(self))
  /\ UNCHANGED << self, other >>

\* self.isGrayscale()
IsGrayscale ==
  /\ pc = "self"
  /\ pc' = "called"
  /\ op' = "isGrayscale"
  /\ in' = << >>
  /\ out' = isGrayscale(self)
  /\ UNCHANGED << self, other >>

\* self.toString('hex'), self.toString()
CallToString ==
  /\ pc = "self"
  /\ \E space \in { "hex", "rgb" } :
       /\ in' = space
       /\ out' = toString(self, space)
  /\ pc' = "called"
  /\ op' = "toString"
  /\ UNCHANGED << self, other >>

\* self.mix(other, k / WeightDen), and self.mix(other) where k is -1
Mix ==
  /\ pc = "pair"
  /\ \E k \in -1 .. WeightDen :
       /\ in' = k
       /\ out' = mix(self, other, IF k = -1 THEN Undefined ELSE DoubleOfRatio(k, WeightDen))
  /\ pc' = "called"
  /\ op' = "mix"
  /\ UNCHANGED << self, other >>

\* self.contrastRatio(other), in a build whose Math.pow rounds up, or down
ContrastRatio ==
  /\ pc = "pair"
  /\ \E up \in BOOLEAN :
       /\ in' = up
       /\ out' = contrastRatio(self, other, up)
  /\ pc' = "called"
  /\ op' = "contrastRatio"
  /\ UNCHANGED << self, other >>

\* Color.fromHex(s)
FromHex ==
  /\ pc = "start"
  /\ \E x \in HexInputs :
       /\ in' = x
       /\ out' = fromHex(x.s)
  /\ pc' = "called"
  /\ op' = "fromHex"
  /\ UNCHANGED << self, other >>

\* Color.fromHex(s).toString('hex')
FromHexToString ==
  /\ pc = "called"
  /\ op = "fromHex"
  /\ op' = "fromHex.toString"
  /\ out' = toString(out, "hex")
  /\ UNCHANGED << pc, self, other, in >>

\* Color.fromRGB(s)
FromRGB ==
  /\ pc = "start"
  /\ \E x \in RgbInputs :
       /\ in' = x
       /\ out' = fromRGB(x.s)
  /\ pc' = "called"
  /\ op' = "fromRGB"
  /\ UNCHANGED << self, other >>

\* Color.typeCheck(arg) for an argument that is not a Color
TypeCheck ==
  /\ pc = "start"
  /\ \E x \in TypeCheckInputs :
       /\ in' = x
       /\ out' = typeCheck(x.arg)
  /\ pc' = "called"
  /\ op' = "typeCheck"
  /\ UNCHANGED << self, other >>

\* Color.typeCheck(self)
TypeCheckSelf ==
  /\ pc = "self"
  /\ pc' = "called"
  /\ op' = "typeCheck"
  /\ in' = [arg |-> self, denotes |-> << >>]
  /\ out' = typeCheck(self)
  /\ UNCHANGED << self, other >>

\* new ColorAlpha(r, g, b, k / WeightDen), and new ColorAlpha(r, g, b) where k is -1
NewAlpha ==
  /\ pc = "start"
  /\ \E r \in Chan, g \in Chan, b \in Chan, k \in -1 .. WeightDen :
       LET alpha == IF k = -1 THEN Undefined ELSE Num(k, WeightDen)
       IN  /\ in' = [red |-> Whole(r), green |-> Whole(g), blue |-> Whole(b),
                     alpha |-> Default(alpha, Whole(1))]
           /\ out' = ColorAlpha(Whole(r), Whole(g), Whole(b), alpha)
  /\ pc' = "called"
  /\ op' = "new ColorAlpha"
  /\ UNCHANGED << self, other >>

\* negative() on the ColorAlpha just built, and on the result of that
Negative ==
  /\ pc = "called"
  /\ op \in { "new ColorAlpha", "negative" }
  /\ op' = IF op = "negative" THEN "negative.negative" ELSE "negative"
  /\ out' = negative(out)
  /\ UNCHANGED << pc, self, other, in >>

Next ==
  \/ New0
  \/ New1
  \/ New3
  \/ Complement
  \/ ComplementAgain
  \/ Rotate
  \/ Invert
  \/ FromHSV
  \/ FromHSL
  \/ IsGrayscale
  \/ CallToString
  \/ FromHex
  \/ FromHexToString
  \/ FromRGB
  \/ TypeCheck
  \/ TypeCheckSelf
  \/ NewAlpha
  \/ Negative

Spec == Init /\ [][Next]_vars

\* the sessions that mix two colors
NextMix ==
  \/ New0
  \/ New1
  \/ New3
  \/ NewOther
  \/ Mix

SpecMix == Init /\ [][NextMix]_vars

\* the sessions that compare a black or gray color with a second color
NextContrast ==
  \/ New0
  \/ New1
  \/ NewOther
  \/ ContrastRatio

SpecContrast == Init /\ [][NextContrast]_vars

-----------------------------------------------------------------------------
(* The claims.                                                             *)

Triple(t) == << Whole(t[1]), Whole(t[2]), Whole(t[3]) >>

\* |x - y| <= 1
Near(x, y) == Le(MathAbs(Sub(x, y)), Whole(1))

\* x is a number with lo <= x <= hi, and with lo <= x < hi
Within(x, lo, hi) == Le(Whole(lo), x) /\ Le(x, Whole(hi))
Below(x, lo, hi) == Le(Whole(lo), x) /\ Lt(x, Whole(hi))

\* C1: for all integers r, g, b in [0, 255], zeros included, new Color(r, g, b)
\* has red() = r, green() = g and blue() = b.
C1_ConstructorKeepsComponents ==
  op = "new Color(r, g, b)" => rgb(out) = Triple(in)

\* C2: for every constructed color c, fromHSV applied to c.hsv() and fromHSL
\* applied to c.hsl() return, without failing, a color within 1 of c on every
\* channel.
C2_RoundTripWithinOne ==
  op \in { "fromHSV", "fromHSL" } =>
    /\ out.t = "Color"
    /\ Near(red(out), red(self))
    /\ Near(green(out), green(self))
    /\ Near(blue(out), blue(self))

\* C3: c.complement() has the components (255 - red, 255 - green, 255 - blue),
\* and c.complement().complement() has the components of c.
C3_ComplementInvolution ==
  /\ op = "complement" =>
       rgb(out) = << Sub(Whole(255), red(self)), Sub(Whole(255), green(self)),
                     Sub(Whole(255), blue(self)) >>
  /\ op = "complement.complement" => rgb(out) = rgb(self)

\* the weight of the call self.mix(other, k / WeightDen), 0.5 when omitted
WeightOf(k) == IF k = -1 THEN DoubleOfRatio(1, 2) ELSE DoubleOfRatio(k, WeightDen)

\* Math.round(a * (1 - w) + b * w) for whole channels a and b
Blend(a, b, w) == Whole(DoubleRound(average(DoubleOfNat(a.n), DoubleOfNat(b.n), w)))

\* C4: every channel of a.mix(b, w) is round(a.channel * (1 - w) + b.channel * w),
\* whatever the other two channels are; an omitted weight is 0.5.
C4_MixPerChannel ==
  op = "mix" =>
    /\ red(out)   = Blend(red(self),   red(other),   WeightOf(in))
    /\ green(out) = Blend(green(self), green(other), WeightOf(in))
    /\ blue(out)  = Blend(blue(self),  blue(other),  WeightOf(in))

\* C5: a.mix(b, w) and b.mix(a, 1 - w) have the same three channels, for
\* every w in [0, 1], 0 and 1 included.
C5_MixSymmetry ==
  (op = "mix" /\ in # -1) =>
    rgb(out) = rgb(mix(other, self, DoubleSub(DoubleOfNat(1), WeightOf(in))))

\* C6: c.isGrayscale() is true exactly when red = green = blue; the black of
\* new Color() is grayscale.
C6_GrayscaleIffEqualChannels ==
  op = "isGrayscale" =>
    (out <=> (red(self) = green(self) /\ green(self) = blue(self)))

\* C7: typeCheck never fails: a Color is returned as it is, a string with a
\* known prefix gives the color it denotes, any other string gives black, a
\* number gives the gray of its value clamped to [0, 255], anything else
\* gives black.
C7_TypeCheckNeverFails ==
  op = "typeCheck" =>
    /\ out.t = "Color"
    /\ in.arg.t = "Color" => out = in.arg
    /\ in.denotes # << >> => rgb(out) = Triple(in.denotes)

\* C8: for s = '#' and six lowercase hex digits, fromHex(s) has the values of
\* the three digit pairs as red, green and blue, and
\* fromHex(s).toString('hex') = s.
C8_HexRoundTrip ==
  /\ op = "fromHex" => rgb(out) = Triple(in.denotes)
  /\ op = "fromHex.toString" => out = in.s

\* C9: negative() on a ColorAlpha built with (r, g, b, alpha), alpha being 1
\* when omitted, returns a ColorAlpha with the same r, g, b and the alpha
\* 1 - alpha; negative().negative() has the alpha of the original.
C9_NegativeComplementsAlpha ==
  /\ op = "negative" =>
       /\ out.t = "ColorAlpha"
       /\ rgbOf(out) = << in.red, in.green, in.blue >>
       /\ alphaOf(out) = Sub(Whole(1), in.alpha)
  /\ op = "negative.negative" => alphaOf(out) = in.alpha

\* C10: a Color constructed from integers in [0, 255] has hsvHue in [0, 360),
\* hslHue equal to hsvHue, and hsvSat, hsvVal, hslSat, hslLum in [0, 1].
C10_DerivedFieldsInRange ==
  op = "new Color(r, g, b)" =>
    /\ Below(hsvHue(out), 0, 360)
    /\ hslHue(out) = hsvHue(out)
    /\ Within(hsvSat(out), 0, 1)
    /\ Within(hsvVal(out), 0, 1)
    /\ Within(hslSat(out), 0, 1)
    /\ Within(hslLum(out), 0, 1)

\* x = y for two doubles
DoubleEq(x, y) == ~DoubleLt(x, y) /\ ~DoubleLt(y, x)

\* the lighter of two luminances plus 0.05, over the darker plus 0.05
OverDarker(L1, L2) ==
  DoubleDiv(DoubleAdd(IF DoubleLt(L1, L2) THEN L2 ELSE L1, Flare),
            DoubleAdd(IF DoubleLt(L1, L2) THEN L1 ELSE L2, Flare))

\* C11: a.contrastRatio(b) equals b.contrastRatio(a) and is at least 1,
\* a.contrastRatio(a) is 1, and the ratio is (max(L1, L2) + 0.05) /
\* (min(L1, L2) + 0.05) for the relative luminances L1 and L2 of the two colors.
C11_ContrastRatioSymmetric ==
  op = "contrastRatio" =>
    /\ DoubleEq(out, contrastRatio(other, self, in))
    /\ DoubleLe(DoubleOfNat(1), out)
    /\ DoubleEq(contrastRatio(self, self, in), DoubleOfNat(1))
    /\ DoubleEq(contrastRatio(other, other, in), DoubleOfNat(1))
    /\ DoubleEq(out, OverDarker(luma(self, in), luma(other, in)))

\* black has been compared with white, the ratio being 21, and a color with a
\* darker one, the ratio being above 1
C11_Witness ==
  /\ op = "contrastRatio"
  /\ \/ /\ rgb(self) = Triple(<< 0, 0, 0 >>)
        /\ rgb(other) = Triple(<< 255, 255, 255 >>)
        /\ DoubleEq(out, DoubleOfNat(21))
     \/ /\ DoubleLt(luma(other, in), luma(self, in))
        /\ DoubleLt(DoubleOfNat(1), out)

\* the hue x brought into [0, 360)
Normalized(x) ==
  LET r == Rem(x, Whole(360))
  IN  IF Lt(r, Whole(0)) THEN Add(r, Whole(360)) ELSE r

\* C12: c.rotate(d) does not fail for any whole number of degrees d, positive
\* or negative: it is the color fromHSV builds from the hue c.hsvHue() + d
\* normalized into [0, 360) and the saturation and value of c; rotate(360)
\* is built from the hue of c itself, and invert() is rotate(180).
C12_RotateNormalizesHue ==
  /\ op = "rotate" =>
       /\ out.t = "Color"
       /\ out = fromHSV(Normalized(Add(hsvHue(self), in)), hsvSat(self), hsvVal(self))
       /\ in = Whole(360) =>
            out = fromHSV(hsvHue(self), hsvSat(self), hsvVal(self))
  /\ op = "invert" =>
       /\ out.t = "Color"
       /\ out = fromHSV(Normalized(Add(hsvHue(self), Whole(180))),
                        hsvSat(self), hsvVal(self))

====
